---- MODULE Spec2Model ----
(***************************************************************************)
(* train.py: parse two optional arguments, optionally create the output    *)
(* directory, read a CSV file, add one to its "num" column and write the   *)
(* table back to the path it was read from.                                *)
(*                                                                         *)
(* The state is the file system the script acts on, the command line of    *)
(* the current run, the position of the run in the script, its standard    *)
(* output and its exit code.  One action per statement group of the script.*)
(***************************************************************************)
EXTENDS Integers, Sequences, FiniteSets, TLC

VARIABLES
    fs,           \* the file system: path -> node (absent, directory or file)
    orig,         \* the file system before the first run
    pre,          \* the file system when the current run started
    succ,         \* path -> number of runs that have overwritten it
    runs,         \* number of runs started
    argv,         \* the command line of the current run
    args,         \* parse_args() result: input_data and output_train
    input_path,   \* the script's input_path
    output_path,  \* the script's output_path
    df,           \* the script's DataFrame
    pc,           \* position of the run in the script
    out,          \* standard output of the current run, one entry per line group
    exitCode,     \* exit code of the run (meaningful when pc = "exited")
    failedAt,     \* phase in which the run died, "" if it did not
    wrote,        \* paths the current run has written a file to
    made          \* TRUE when the current run has executed os.makedirs successfully

vars == <<fs, orig, pre, succ, runs, argv, args, input_path, output_path, df,
          pc, out, exitCode, failedAt, wrote, made>>

(***************************************************************************)
(* Bounds of the model.                                                    *)
(***************************************************************************)
MaxRows == 1
MaxRuns == 2

(***************************************************************************)
(* Paths.  A path is its sequence of components below the working          *)
(* directory; the working directory itself (the empty sequence) always     *)
(* exists and is writable.  argparse's default None is written as the      *)
(* empty sequence, which is not one of Paths.                              *)
(***************************************************************************)
None == << >>
Paths == { <<"out">>, <<"out", "data">>, <<"data">> }
Parent(p) == SubSeq(p, 1, Len(p) - 1)
IsUnder(p, d) == Len(p) > Len(d) /\ SubSeq(p, 1, Len(d)) = d

(***************************************************************************)
(* int64 cells.  TLC's integers are narrower than int64, so a value is     *)
(* written relative to an anchor: zero + off, max + off (max = 2^63 - 1,   *)
(* off <= 0) or min + off (min = -2^63, off >= 0).                         *)
(***************************************************************************)
IntCell(a, o) == [kind |-> "int", anchor |-> a, off |-> o]
StrCell(s) == [kind |-> "str", anchor |-> s, off |-> 0]
Int64Max == IntCell("max", 0)
Int64Min == IntCell("min", 0)

(* numpy int64 addition of one: wraps from 2^63 - 1 to -2^63 *)
AddOne(c) == IF c = Int64Max THEN Int64Min ELSE IntCell(c.anchor, c.off + 1)

(***************************************************************************)
(* Files.  A file's content is what the CSV reader makes of its text:      *)
(* unparsable, or a header of column names and rows of cells.  A column    *)
(* name is a base name and the ".k" suffix pandas appends to the k-th      *)
(* repetition of a name (dup = 0: no suffix).                              *)
(***************************************************************************)
Col(b, k) == [base |-> b, dup |-> k]
Table(h, r) == [ok |-> TRUE, header |-> h, rows |-> r]
Garbage == [ok |-> FALSE, header |-> << >>, rows |-> << >>]
NoContent == Garbage

Absent == [kind |-> "none", ro |-> FALSE, content |-> NoContent]
Dir(ro) == [kind |-> "dir", ro |-> ro, content |-> NoContent]
File(ro, c) == [kind |-> "file", ro |-> ro, content |-> c]

Exists(f, p) == p = << >> \/ (p \in Paths /\ f[p].kind # "none")
IsDir(f, p) == p = << >> \/ (p \in Paths /\ f[p].kind = "dir")
IsFile(f, p) == p \in Paths /\ f[p].kind = "file"
ReadOnly(f, p) == p \in Paths /\ f[p].ro

(***************************************************************************)
(* os.mkdir and os.makedirs(name, exist_ok=True).  Both give the outcome   *)
(* and the file system they leave.                                         *)
(***************************************************************************)
mkdir(f, p) ==
    IF Exists(f, p) THEN [ok |-> FALSE, fs |-> f]                  \* FileExistsError
    ELSE IF ~IsDir(f, Parent(p)) THEN [ok |-> FALSE, fs |-> f]     \* FileNotFoundError, NotADirectoryError
    ELSE IF ReadOnly(f, Parent(p)) THEN [ok |-> FALSE, fs |-> f]   \* PermissionError
    ELSE [ok |-> TRUE, fs |-> [f EXCEPT ![p] = Dir(FALSE)]]

RECURSIVE makedirs(_, _, _)
makedirs(f, p, exist_ok) ==
    LET head == IF Len(p) > 1 /\ ~Exists(f, Parent(p))
                THEN makedirs(f, Parent(p), exist_ok)
                ELSE [ok |-> TRUE, fs |-> f]
        made_ == mkdir(head.fs, p)
    IN  IF ~head.ok THEN head
        ELSE IF made_.ok THEN made_
        ELSE IF exist_ok /\ IsDir(head.fs, p) THEN [ok |-> TRUE, fs |-> head.fs]
        ELSE [ok |-> FALSE, fs |-> head.fs]

(***************************************************************************)
(* pandas.read_csv.  Repeated column names are renamed: the k-th           *)
(* repetition of name x becomes x.k.  (Headers that already hold a name    *)
(* of the form x.k together with a repeated name are not among the         *)
(* initial files, so the renamed name never collides.)                     *)
(***************************************************************************)
Earlier(h, i) == Cardinality({ j \in 1..(i - 1) : h[j] = h[i] })
dedup_names(h) ==
    [ i \in 1..Len(h) |->
        IF Earlier(h, i) > 0 /\ h[i].dup = 0 THEN Col(h[i].base, Earlier(h, i)) ELSE h[i] ]

read_csv(f, p) ==
    IF ~IsFile(f, p) THEN [ok |-> FALSE, df |-> Garbage]           \* FileNotFoundError, IsADirectoryError
    ELSE IF ~f[p].content.ok THEN [ok |-> FALSE, df |-> Garbage]   \* ParserError, EmptyDataError
    ELSE [ok |-> TRUE,
          df |-> Table(dedup_names(f[p].content.header), f[p].content.rows)]

(***************************************************************************)
(* df["num"] += 1.  KeyError without a column named num; TypeError when    *)
(* the column holds text (an object column of strings); int64 addition     *)
(* otherwise.  A column of no rows is incremented to a column of no rows.  *)
(***************************************************************************)
NumCol == Col("num", 0)
HasColumn(d, c) == \E j \in 1..Len(d.header) : d.header[j] = c
ColumnIndex(d, c) == CHOOSE j \in 1..Len(d.header) : d.header[j] = c
IsNumeric(d, j) == \A i \in 1..Len(d.rows) : d.rows[i][j].kind = "int"

(* variant: a missing num column is tolerated and the table passes through *)
increment_lenient(d) ==
    IF ~HasColumn(d, NumCol) THEN [ok |-> TRUE, df |-> d]
    ELSE IF ~IsNumeric(d, ColumnIndex(d, NumCol)) THEN [ok |-> FALSE, df |-> d]
    ELSE [ok |-> TRUE,
          df |-> Table(d.header,
                       [ i \in 1..Len(d.rows) |->
                           [ j \in 1..Len(d.header) |->
                               IF j = ColumnIndex(d, NumCol)
                               THEN AddOne(d.rows[i][j]) ELSE d.rows[i][j] ] ])]

increment(d) ==
    IF ~HasColumn(d, NumCol) THEN [ok |-> FALSE, df |-> d]                     \* KeyError
    ELSE IF ~IsNumeric(d, ColumnIndex(d, NumCol)) THEN [ok |-> FALSE, df |-> d]  \* TypeError
    ELSE [ok |-> TRUE,
          df |-> Table(d.header,
                       [ i \in 1..Len(d.rows) |->
                           [ j \in 1..Len(d.header) |->
                               IF j = ColumnIndex(d, NumCol)
                               THEN AddOne(d.rows[i][j]) ELSE d.rows[i][j] ] ])]

(***************************************************************************)
(* DataFrame.to_csv(path, index=...).  With index=True the row labels      *)
(* 0, 1, ... are written as a leading column with an empty name.           *)
(***************************************************************************)
csv_text(d, index) ==
    IF index
    THEN Table(<<Col("", 0)>> \o d.header,
               [ i \in 1..Len(d.rows) |-> <<IntCell("zero", i - 1)>> \o d.rows[i] ])
    ELSE Table(d.header, d.rows)

CanWrite(f, p) ==
    IF Exists(f, p) THEN IsFile(f, p) /\ ~ReadOnly(f, p)
    ELSE IsDir(f, Parent(p)) /\ ~ReadOnly(f, Parent(p))

to_csv(f, p, d, index) ==
    IF ~CanWrite(f, p) THEN [ok |-> FALSE, fs |-> f]      \* PermissionError, IsADirectoryError
    ELSE [ok |-> TRUE, fs |-> [f EXCEPT ![p] = File(FALSE, csv_text(d, index))]]

(* os.path.join of a single component: the component itself; TypeError on None *)
path_join(p) == [ok |-> p # None, path |-> p]

(***************************************************************************)
(* The script's own expressions.                                           *)
(***************************************************************************)
(* variant: the directory step is not guarded *)
output_dir_always(a) == TRUE

(* line 21: not (args.output_train is None) *)
output_dir_given(a) == a.output_train # None

(* variant: os.makedirs without exist_ok *)
ensure_dir_strict(f, p) == makedirs(f, p, FALSE)

(* line 22: os.makedirs(args.output_train, exist_ok=True) *)
ensure_dir(f, p) == makedirs(f, p, TRUE)

(* line 27: the argument of os.path.join for input_path *)
input_target(a) == a.input_data

(* variant: line 40, the commented-out os.path.join(args.output_train) *)
output_target_train(a) == a.output_train

(* line 39: the argument of os.path.join for output_path *)
output_target(a) == a.input_data

(* line 42: df.to_csv(output_path, index=False) *)
write_table(f, p, d) == to_csv(f, p, d, FALSE)

(***************************************************************************)
(* The files and the command lines the runs are given.                     *)
(***************************************************************************)
NumCells == { IntCell("zero", 0), IntCell("max", -1), Int64Max, StrCell("x") }
IdCells == { StrCell("x"), IntCell("zero", 0) }
CellsOf(b) == IF b = "num" THEN NumCells ELSE IdCells

Headers == { <<"num">>, <<"id">>, <<"id", "num">>, <<"num", "id">>, <<"id", "id", "num">> }
HeaderOf(h) == [ j \in 1..Len(h) |-> Col(h[j], 0) ]
RowsOf(h) == { r \in [ 1..Len(h) -> NumCells \cup IdCells ] :
                 \A j \in 1..Len(h) : r[j] \in CellsOf(h[j]) }
RECURSIVE RowSeqs(_, _)
RowSeqs(h, n) ==
    IF n = 0 THEN { << >> }
    ELSE RowSeqs(h, n - 1) \cup
         { Append(rs, r) : rs \in { x \in RowSeqs(h, n - 1) : Len(x) = n - 1 }, r \in RowsOf(h) }
Contents == { Garbage } \cup
            UNION { { Table(HeaderOf(h), rs) : rs \in RowSeqs(h, MaxRows) } : h \in Headers }

KindsAt(p) ==
    IF p = <<"out">> THEN { "none", "dir", "rodir", "file" }
    ELSE IF p = <<"out", "data">> THEN { "none", "dir", "file", "rofile" }
    ELSE { "none", "file" }
Layouts == { l \in [ Paths -> { "none", "dir", "rodir", "file", "rofile" } ] :
               /\ \A p \in Paths : l[p] \in KindsAt(p)
               /\ \A p \in Paths : (l[p] # "none" /\ Len(p) > 1) => l[Parent(p)] \in { "dir", "rodir" } }
NodeOf(k, c) ==
    CASE k = "none" -> Absent
      [] k = "dir" -> Dir(FALSE)
      [] k = "rodir" -> Dir(TRUE)
      [] k = "file" -> File(FALSE, c)
      [] k = "rofile" -> File(TRUE, c)

InputChoices == { None, <<"data">>, <<"out", "data">> }
OutputChoices == { None, <<"out">>, <<"out", "data">> }
CommandLines ==
    [ kind : { "ok" }, input_data : InputChoices, output_train : OutputChoices ]
    \cup { [ kind |-> k, input_data |-> None, output_train |-> None ] : k \in { "help", "error" } }
NoArgs == [ input_data |-> None, output_train |-> None ]

Init ==
    /\ \E l \in Layouts, c \in Contents : fs = [ p \in Paths |-> NodeOf(l[p], c) ]
    /\ orig = fs
    /\ pre = fs
    /\ succ = [ p \in Paths |-> 0 ]
    /\ runs = 0
    /\ argv = [ kind |-> "ok", input_data |-> None, output_train |-> None ]
    /\ args = NoArgs
    /\ input_path = None
    /\ output_path = None
    /\ df = Garbage
    /\ pc = "idle"
    /\ out = << >>
    /\ exitCode = 0
    /\ failedAt = ""
    /\ wrote = { }
    /\ made = FALSE

(* an uncaught exception: traceback on stderr, exit code 1 *)
Die(phase) ==
    /\ pc' = "exited"
    /\ exitCode' = 1
    /\ failedAt' = phase

(***************************************************************************)
(* Lines 8-19: the two banner lines, parse_args(), the two argument lines. *)
(* parse_args() leaves the process on -h (help on stdout, exit 0) and on   *)
(* an argument error (usage on stderr, exit 2).                            *)
(***************************************************************************)
ParseArgs ==
    /\ pc \in { "idle", "exited" }
    /\ runs < MaxRuns
    /\ \E cl \in CommandLines :
         /\ argv' = cl
         /\ IF cl.kind = "ok"
            THEN /\ args' = [ input_data |-> cl.input_data, output_train |-> cl.output_train ]
                 /\ out' = << "In train.py", "As a data scientist", "Argument 1", "Argument 2" >>
                 /\ pc' = "makedirs"
                 /\ exitCode' = 0
            ELSE /\ args' = NoArgs
                 /\ out' = IF cl.kind = "help"
                           THEN << "In train.py", "As a data scientist", "usage" >>
                           ELSE << "In train.py", "As a data scientist" >>
                 /\ pc' = "exited"
                 /\ exitCode' = IF cl.kind = "help" THEN 0 ELSE 2
    /\ runs' = runs + 1
    /\ pre' = fs
    /\ input_path' = None
    /\ output_path' = None
    /\ df' = Garbage
    /\ failedAt' = ""
    /\ wrote' = { }
    /\ made' = FALSE
    /\ UNCHANGED <<fs, orig, succ>>

(* Lines 21-23: makedirs when output_train is given, then the "created" line *)
MakeOutputDir ==
    /\ pc = "makedirs"
    /\ IF ~output_dir_given(args)
       THEN /\ pc' = "read_msg"
            /\ UNCHANGED <<fs, out, exitCode, failedAt, made>>
       ELSE LET r == ensure_dir(fs, args.output_train)
            IN  /\ fs' = r.fs
                /\ IF r.ok
                   THEN /\ made' = TRUE
                        /\ out' = Append(out, "created")
                        /\ pc' = "read_msg"
                        /\ UNCHANGED <<exitCode, failedAt>>
                   ELSE /\ Die("makedirs")
                        /\ UNCHANGED <<out, made>>
    /\ UNCHANGED <<orig, pre, succ, runs, argv, args, input_path, output_path, df, wrote>>

(* variant: the "read data" line is printed after the path has been resolved *)
ResolveInputThenPrint ==
    /\ pc = "read_msg"
    /\ LET r == path_join(input_target(args))
       IN  IF r.ok
           THEN /\ input_path' = r.path
                /\ out' = Append(out, "read data")
                /\ pc' = "read_csv"
                /\ UNCHANGED <<exitCode, failedAt>>
           ELSE /\ Die("read")
                /\ UNCHANGED <<input_path, out>>
    /\ UNCHANGED <<fs, orig, pre, succ, runs, argv, args, output_path, df, wrote, made>>

(* Lines 26-27: the "read data" line, then input_path = os.path.join(input_data) *)
ResolveInput ==
    /\ pc = "read_msg"
    /\ out' = Append(out, "read data")
    /\ LET r == path_join(input_target(args))
       IN  IF r.ok
           THEN /\ input_path' = r.path
                /\ pc' = "read_csv"
                /\ UNCHANGED <<exitCode, failedAt>>
           ELSE /\ Die("read")
                /\ UNCHANGED input_path
    /\ UNCHANGED <<fs, orig, pre, succ, runs, argv, args, output_path, df, wrote, made>>

(* Line 29: df = pd.read_csv(input_path) *)
ReadCsv ==
    /\ pc = "read_csv"
    /\ LET r == read_csv(fs, input_path)
       IN  IF r.ok
           THEN /\ df' = r.df
                /\ pc' = "increment"
                /\ UNCHANGED <<exitCode, failedAt>>
           ELSE /\ Die("read")
                /\ UNCHANGED df
    /\ UNCHANGED <<fs, orig, pre, succ, runs, argv, args, input_path, output_path, out, wrote, made>>

(* Line 30: df["num"] += 1 *)
Increment ==
    /\ pc = "increment"
    /\ LET r == increment(df)
       IN  IF r.ok
           THEN /\ df' = r.df
                /\ pc' = "write_msg"
                /\ UNCHANGED <<exitCode, failedAt>>
           ELSE /\ Die("increment")
                /\ UNCHANGED df
    /\ UNCHANGED <<fs, orig, pre, succ, runs, argv, args, input_path, output_path, out, wrote, made>>

(* Lines 39-41: output_path = os.path.join(input_data), then the "write data" line *)
ResolveOutput ==
    /\ pc = "write_msg"
    /\ LET r == path_join(output_target(args))
       IN  IF r.ok
           THEN /\ output_path' = r.path
                /\ out' = Append(out, "write data")
                /\ pc' = "to_csv"
                /\ UNCHANGED <<exitCode, failedAt>>
           ELSE /\ Die("write")
                /\ UNCHANGED <<output_path, out>>
    /\ UNCHANGED <<fs, orig, pre, succ, runs, argv, args, input_path, df, wrote, made>>

(* variant: a failed write is swallowed and the script carries on *)
ToCsvSwallow ==
    /\ pc = "to_csv"
    /\ LET r == write_table(fs, output_path, df)
       IN  /\ fs' = r.fs
           /\ IF r.ok
              THEN /\ wrote' = wrote \cup { output_path }
                   /\ succ' = [ succ EXCEPT ![output_path] = @ + 1 ]
              ELSE UNCHANGED <<wrote, succ>>
    /\ pc' = "done_msg"
    /\ UNCHANGED <<orig, pre, runs, argv, args, input_path, output_path, df, out, made,
                   exitCode, failedAt>>

(* Line 42: df.to_csv(output_path, index=False) *)
ToCsv ==
    /\ pc = "to_csv"
    /\ LET r == write_table(fs, output_path, df)
       IN  /\ fs' = r.fs
           /\ IF r.ok
              THEN /\ wrote' = wrote \cup { output_path }
                   /\ succ' = [ succ EXCEPT ![output_path] = @ + 1 ]
                   /\ pc' = "done_msg"
                   /\ UNCHANGED <<exitCode, failedAt>>
              ELSE /\ Die("write")
                   /\ UNCHANGED <<wrote, succ>>
    /\ UNCHANGED <<orig, pre, runs, argv, args, input_path, output_path, df, out, made>>

(* variant: the run ends without its last line *)
FinishSilent ==
    /\ pc = "done_msg"
    /\ pc' = "exited"
    /\ exitCode' = 0
    /\ UNCHANGED <<fs, orig, pre, succ, runs, argv, args, input_path, output_path, df,
                   out, failedAt, wrote, made>>

(* Line 44: the last line, then the interpreter exits with code 0 *)
Finish ==
    /\ pc = "done_msg"
    /\ out' = Append(out, "training is done")
    /\ pc' = "exited"
    /\ exitCode' = 0
    /\ UNCHANGED <<fs, orig, pre, succ, runs, argv, args, input_path, output_path, df,
                   failedAt, wrote, made>>

Next ==
    \/ ParseArgs
    \/ MakeOutputDir
    \/ ResolveInput
    \/ ReadCsv
    \/ Increment
    \/ ResolveOutput
    \/ ToCsv
    \/ Finish

Spec == Init /\ [][Next]_vars

(***************************************************************************)
(* Vocabulary of the properties.                                           *)
(***************************************************************************)
Exited == pc = "exited"
Parsed == pc # "idle" /\ argv.kind = "ok"
Completed == Exited /\ argv.kind = "ok" /\ failedAt = ""
Failed == Exited /\ failedAt # ""
LastLine == IF Len(out) = 0 THEN "" ELSE out[Len(out)]
In == args.input_data
Out == args.output_train

(* cell w is cell v plus k, in the integers (no wrap) *)
IsPlus(w, v, k) ==
    IF k = 0 THEN w = v
    ELSE w.kind = "int" /\ v.kind = "int" /\ w.anchor = v.anchor /\ w.off = v.off + k

(* new is old with k added to every cell below a column named num, cell by cell *)
NumPlus(old, new, k) ==
    /\ new.ok
    /\ Len(new.header) = Len(old.header)
    /\ Len(new.rows) = Len(old.rows)
    /\ \A i \in 1..Len(old.rows) : \A j \in 1..Len(old.header) :
         IF old.header[j] = NumCol
         THEN IsPlus(new.rows[i][j], old.rows[i][j], k)
         ELSE new.rows[i][j] = old.rows[i][j]

(* C1: after a run that completed, the file at input_data holds the rows it held
   before the run, in the same order, with every num value one greater and every
   other cell unchanged. *)
RoundTripIncrement ==
    Completed => NumPlus(pre[In].content, fs[In].content, 1)

(* C9: after a run that completed, the column names of the file at input_data are
   the column names it had before the run: same names, same order, same count. *)
HeaderPreserved ==
    Completed => fs[In].content.header = pre[In].content.header

(* C10: a file that has been overwritten by k runs holds its original rows with
   every num value k greater and every other cell unchanged; runs that did not
   overwrite it (failed runs) contribute nothing. *)
RunsAccumulate ==
    \A p \in Paths :
        (IsFile(orig, p) /\ orig[p].content.ok) =>
            /\ IsFile(fs, p)
            /\ NumPlus(orig[p].content, fs[p].content, succ[p])

(***************************************************************************)
(* The directory step of the current run, judged on the file system the    *)
(* run started with: it is refused when output_train or one of its         *)
(* ancestors is a file, or when the deepest existing ancestor is           *)
(* read-only.                                                              *)
(***************************************************************************)
Prefixes(p) == { SubSeq(p, 1, n) : n \in 1..Len(p) }
DirStepRefused ==
    /\ Out # None
    /\ ~IsDir(pre, Out)
    /\ \/ \E q \in Prefixes(Out) : IsFile(pre, q)
       \/ \E q \in Prefixes(Out) : ~Exists(pre, q) /\ Exists(pre, Parent(q)) /\ ReadOnly(pre, Parent(q))
FilesElsewhereUntouched(keep) ==
    \A p \in Paths \ keep : (IsFile(fs, p) \/ IsFile(pre, p)) => fs[p] = pre[p]

(* the input file parses and has no column named num *)
MissingNumColumn ==
    /\ Parsed
    /\ In # None
    /\ IsFile(pre, In)
    /\ pre[In].content.ok
    /\ ~HasColumn(pre[In].content, NumCol)

(* C2: when the input file parses (read_csv has returned its table) and has no
   column named num, the run dies at the increment step with an uncaught error;
   the write step is never reached and the file at input_data is left exactly
   as it was before the run. *)
MissingColumnFails ==
    /\ MissingNumColumn =>
         /\ pc \notin { "write_msg", "to_csv", "done_msg" }
         /\ ~Completed
         /\ wrote = { }
         /\ fs[In] = pre[In]
    /\ (MissingNumColumn /\ df.ok) =>
         /\ pc \in { "increment", "exited" }
         /\ Exited => (exitCode = 1 /\ failedAt = "increment")

MissingColumnWitness ==
    MissingNumColumn /\ df.ok /\ Exited /\ failedAt = "increment" /\ fs[In] = pre[In]

(* C3 as stated: the only file a run writes is the one at input_data, and no file
   under the output_train directory is created or modified. *)
NothingUnderOutputTrain ==
    Parsed =>
        /\ wrote \subseteq { In }
        /\ output_path \in { None, In }
        /\ Out # None =>
             \A p \in Paths :
                 (IsUnder(p, Out) /\ (IsFile(fs, p) \/ IsFile(pre, p))) => fs[p] = pre[p]

(* C3 amended: the output path is the input path, the only file a run writes is
   the one at input_data, and every other file, under output_train or elsewhere,
   is left as it was; the file at input_data is itself under output_train when
   input_data lies inside that directory. *)
OutputIsInput ==
    Parsed =>
        /\ wrote \subseteq { In }
        /\ pc \in { "to_csv", "done_msg" } => output_path = In
        /\ Completed => (output_path = In /\ wrote = { In })
        /\ FilesElsewhereUntouched({ In })

OutputIsInputWitness ==
    /\ Completed
    /\ Out # None
    /\ IsUnder(In, Out)
    /\ wrote = { In }
    /\ fs[In] # pre[In]

(* C4 as stated: once the directory step has run, an output_train that was an
   existing directory has not made it fail and its contents are unchanged, and an
   output_train that was missing exists as a directory together with all its
   parents. *)
DirectoryAlwaysCreated ==
    (Parsed /\ Out # None /\ pc # "makedirs") =>
        /\ IsDir(pre, Out) =>
             /\ failedAt # "makedirs"
             /\ pc = "read_msg" => fs = pre
        /\ ~Exists(pre, Out) =>
             \A q \in Prefixes(Out) : IsDir(fs, q)

(* C4 amended: an output_train that is an existing directory does not make the
   directory step fail and the step changes nothing; an output_train that is
   missing is created together with every missing parent, and nothing else is
   changed, unless the creation is refused (an ancestor is a file or the deepest
   existing ancestor is read-only): then, and when output_train is an existing
   file, the run dies at the directory step and nothing is created. *)
DirectoryCreation ==
    (Parsed /\ Out # None /\ pc # "makedirs") =>
        /\ IsDir(pre, Out) =>
             /\ failedAt # "makedirs"
             /\ made
             /\ pc = "read_msg" => fs = pre
        /\ (~IsDir(pre, Out) /\ ~DirStepRefused) =>
             /\ failedAt # "makedirs"
             /\ made
             /\ \A q \in Prefixes(Out) : IsDir(fs, q) /\ ~ReadOnly(fs, q)
             /\ pc = "read_msg" => \A p \in Paths \ Prefixes(Out) : fs[p] = pre[p]
             /\ \A q \in Prefixes(Out) : Exists(pre, q) => fs[q] = pre[q]
        /\ DirStepRefused =>
             /\ failedAt = "makedirs"
             /\ Exited /\ exitCode = 1
             /\ ~made
             /\ fs = pre

DirectoryCreationWitness ==
    /\ Parsed /\ Out = <<"out", "data">> /\ pc = "read_msg"
    /\ ~Exists(pre, <<"out">>)
    /\ IsDir(fs, <<"out">>) /\ IsDir(fs, <<"out", "data">>)

(* the phase a status line announces *)
PhaseOfLine(line) ==
    CASE line = "created" -> "makedirs"
      [] line = "read data" -> "read"
      [] line = "write data" -> "write"
      [] OTHER -> ""

(* C5 as stated: every phase that can fail prints its own status line before it
   acts, so the last line of a failed run names the phase in which it died. *)
LastLineNamesFailedPhase ==
    Failed => PhaseOfLine(LastLine) = failedAt

(* C5 amended: only the read and write phases print before acting.  The
   directory phase prints its line after the directory has been made and the
   increment prints nothing, so the last line of a failed run is "Argument 2"
   for a directory failure, the read line for a read or an increment failure,
   and the write line for a write failure. *)
LastLineOfFailedRun ==
    /\ Failed =>
         LastLine = CASE failedAt = "makedirs" -> "Argument 2"
                      [] failedAt = "read" -> "read data"
                      [] failedAt = "increment" -> "read data"
                      [] failedAt = "write" -> "write data"
                      [] OTHER -> ""
    /\ (\E i \in 1..Len(out) : out[i] = "created") => made
    /\ pc = "read_csv" => LastLine = "read data"
    /\ pc = "to_csv" => LastLine = "write data"

LastLineWitness ==
    Failed /\ failedAt = "increment" /\ LastLine = "read data"

(* C6 as stated, for the command lines the parser accepts: without output_train
   the directory step is skipped (nothing made, no "created" line); without
   input_data the run always ends in a fatal failure, which happens in the read
   phase after the directory step, and no file is written. *)
AbsentInputFailsAtRead ==
    /\ (Parsed /\ Out = None) =>
         /\ ~made
         /\ \A i \in 1..Len(out) : out[i] # "created"
         /\ pc # "makedirs" => \A p \in Paths : IsDir(fs, p) <=> IsDir(pre, p)
    /\ (Parsed /\ In = None) =>
         /\ wrote = { }
         /\ Exited => (exitCode # 0 /\ failedAt = "read")

(* C6 amended: without output_train the directory step is skipped (nothing made,
   no "created" line) and the run can complete; without input_data a run whose
   command line the parser accepts always ends in a fatal failure with no file
   written, and the failure happens in the read phase, where the input path is
   resolved, unless the directory step is refused first.  (A command line with -h
   exits 0, one with an argument error exits 2, both before any step.) *)
ArgumentAbsence ==
    /\ (Parsed /\ Out = None) =>
         /\ ~made
         /\ \A i \in 1..Len(out) : out[i] # "created"
         /\ pc # "makedirs" => \A p \in Paths : IsDir(fs, p) <=> IsDir(pre, p)
    /\ (Parsed /\ In = None) =>
         /\ wrote = { }
         /\ fs = pre \/ (made /\ FilesElsewhereUntouched({ }))
         /\ pc \in { "makedirs", "read_msg", "exited" }
         /\ Exited =>
              /\ exitCode = 1
              /\ failedAt = IF DirStepRefused THEN "makedirs" ELSE "read"
              /\ failedAt = "read" => (LastLine = "read data" /\ (Out # None => made))

ArgumentAbsenceWitness ==
    /\ Parsed /\ In = None /\ Out # None
    /\ Exited /\ failedAt = "read" /\ made /\ fs # pre

(* a run without output_train that completed *)
AbsentOutputWitness ==
    Completed /\ Out = None /\ wrote = { In }

(* C7 as stated: a run exits with code 0 exactly when every step completed: the
   file was written and the completion line printed. *)
ExitZeroIffCompleted ==
    Exited =>
        (exitCode = 0 <=> (wrote # { } /\ LastLine = "training is done"))

(* C7 amended: a run whose command line the parser accepts exits with code 0
   exactly when every step completed (the file at input_data was written and the
   completion line printed); any failure ends the run at once (nothing is caught
   or retried) with exit code 1 and without the completion line.  A command line
   with -h exits 0 from the parser without any step, and one with an argument
   error exits 2. *)
ExitOutcome ==
    /\ (Exited /\ argv.kind = "ok") =>
         /\ exitCode = 0 <=> (wrote = { In } /\ LastLine = "training is done")
         /\ exitCode = 0 <=> failedAt = ""
         /\ exitCode \in { 0, 1 }
    /\ failedAt # "" =>
         /\ Exited /\ exitCode = 1
         /\ \A i \in 1..Len(out) : out[i] # "training is done"
    /\ (Exited /\ failedAt = "write") => wrote = { }
    /\ (Exited /\ argv.kind # "ok") =>
         /\ exitCode = IF argv.kind = "help" THEN 0 ELSE 2
         /\ wrote = { } /\ fs = pre
         /\ \A i \in 1..Len(out) : out[i] # "training is done"

ExitOutcomeWitness ==
    Exited /\ argv.kind = "ok" /\ failedAt = "write" /\ exitCode = 1

(* C8 as stated: a run that completed has printed six lines without
   output_train and seven with it. *)
SixOrSevenLines ==
    Completed => Len(out) = IF Out = None THEN 6 ELSE 7

(* C8 amended: a run that completed has printed seven lines without
   output_train and eight with it (the extra one being the "created" line), and
   no other number. *)
SevenOrEightLines ==
    Completed =>
        /\ Len(out) = IF Out = None THEN 7 ELSE 8
        /\ out = IF Out = None
                 THEN << "In train.py", "As a data scientist", "Argument 1", "Argument 2",
                         "read data", "write data", "training is done" >>
                 ELSE << "In train.py", "As a data scientist", "Argument 1", "Argument 2",
                         "created", "read data", "write data", "training is done" >>

SevenOrEightWitness ==
    Completed /\ Out # None /\ Len(out) = 8

====
